---- MODULE Spec2Model ----
(***************************************************************************)
(* A state-machine model of src/runtime/hexagon_dma.cpp: the DMA           *)
(* descriptor pool (desc_pool_get / desc_pool_put / desc_pool_free), the   *)
(* transfer routine halide_hexagon_dma_wrapper with the ROI arithmetic it  *)
(* performs, and the device-interface entry points that reach them.        *)
(***************************************************************************)
EXTENDS Integers, Sequences, FiniteSets, TLC

(* ------------------------------ bounds -------------------------------- *)
\* malloc returns NULL once this many desc_pool_t nodes have been handed out
MaxNodes == 4
\* HAP_cache_lock returns NULL once this many allocations have been locked
MaxLocks == 2
\* callers that may be inside desc_pool_get at the same time
NThreads == 2

(* ------------------------- program constants -------------------------- *)
NULL == 0
descriptor_size == 64

NodeIds == 1..MaxNodes
\* the address HAP_cache_lock returns for its k-th successful call
LockBase(k) == k * (2 * descriptor_size)
\* every descriptor address the pool can hold
Addr == {LockBase(k) + o * descriptor_size : k \in 1..MaxLocks, o \in 0..1}

VARIABLES
    pool,       \* dma_desc_pool, the node memory it links and the allocator bookkeeping
    prevPool,   \* the pool as it was before the most recent pool operation
    hist,       \* the most recent pool operations, oldest first
    status,     \* "running", or "aborted" after a failed halide_assert, or "crashed"
    thr,        \* per concurrent caller: where it is in desc_pool_get and its locals
    dev,        \* the dma_device_handle of the frame buffer (buf->device)
    engine,     \* engine instances taken from the DMA engine pool and not handed back
    xfer,       \* what the most recent halide_hexagon_dma_buffer_copy did
    req,        \* the inputs of one transfer-parameter computation
    plan,       \* the transfer parameters computed from req
    heap,       \* buffers, their dma_device_handle structs and the frame memory
    leases      \* the descriptors callers hold, and what the callers have seen so far

frameVars == <<dev, engine, xfer, req, plan, heap>>
vars == <<pool, prevPool, hist, status, thr, dev, engine, xfer, req, plan, heap, leases>>

(* ----------------------------- allocator ------------------------------ *)
\* contents of a desc_pool_t that was never written
NoNode == [descriptor |-> NULL, used |-> FALSE, next |-> NULL]

\* static pdesc_pool dma_desc_pool = NULL, an untouched heap and cache
InitPool ==
    [dma_desc_pool |-> NULL,
     node      |-> [n \in NodeIds |-> NoNode],
     live      |-> {},
     nMalloc   |-> 0,
     locked    |-> {},
     nLock     |-> 0,
     unlocks   |-> [a \in Addr |-> 0],
     frees     |-> [n \in NodeIds |-> 0],
     uaf       |-> FALSE]

\* malloc(sizeof(desc_pool_t)): a fresh node, or NULL when it fails
malloc(p, ok) ==
    IF ok /\ p.nMalloc < MaxNodes
    THEN [ptr  |-> p.nMalloc + 1,
          pool |-> [p EXCEPT !.nMalloc = @ + 1, !.live = @ \cup {p.nMalloc + 1}]]
    ELSE [ptr |-> NULL, pool |-> p]

\* free(node): a free of a node that is not live is a double free
free(p, n) ==
    [p EXCEPT !.frees[n] = @ + 1, !.live = @ \ {n}, !.uaf = @ \/ (n \notin p.live)]

\* HAP_cache_lock(2 * descriptor_size, NULL): a fresh locked region, or NULL
HAP_cache_lock(p, ok) ==
    IF ok /\ p.nLock < MaxLocks
    THEN [ptr  |-> LockBase(p.nLock + 1),
          pool |-> [p EXCEPT !.nLock = @ + 1,
                             !.locked = @ \cup {LockBase(p.nLock + 1)}]]
    ELSE [ptr |-> NULL, pool |-> p]

\* HAP_cache_unlock(addr): releases the region when addr is the base of a locked one
HAP_cache_unlock(p, addr) ==
    [p EXCEPT !.unlocks[addr] = @ + 1, !.locked = @ \ {addr}]

(* --------------------------- descriptor pool -------------------------- *)
\* the while loop of desc_pool_get passing over a free head node
RECURSIVE desc_pool_walk_skip_head(_, _, _, _)
desc_pool_walk_skip_head(p, temp, prev, visited) ==
    IF temp = NULL
    THEN [found |-> NULL, prev |-> prev, visited |-> visited]
    ELSE IF ~p.node[temp].used /\ prev # NULL
         THEN [found |-> temp, prev |-> prev, visited |-> visited \cup {temp}]
         ELSE desc_pool_walk_skip_head(p, p.node[temp].next, temp,
                                       visited \cup {temp})

\* the while loop of desc_pool_get taking the head node whatever its flag
desc_pool_walk_take_head(p, temp, prev, visited) ==
    IF temp = NULL
    THEN [found |-> NULL, prev |-> prev, visited |-> visited]
    ELSE [found |-> temp, prev |-> prev, visited |-> visited \cup {temp}]

\* the while loop of desc_pool_get: the first node with used == false, else
\* NULL together with the last node visited
RECURSIVE desc_pool_walk(_, _, _, _)
desc_pool_walk(p, temp, prev, visited) ==
    IF temp = NULL
    THEN [found |-> NULL, prev |-> prev, visited |-> visited]
    ELSE IF ~p.node[temp].used
         THEN [found |-> temp, prev |-> prev, visited |-> visited \cup {temp}]
         ELSE desc_pool_walk(p, p.node[temp].next, temp, visited \cup {temp})

\* the growth half of desc_pool_get with the node kept when HAP_cache_lock
\* fails
desc_pool_grow_keep_node(p, prev, mallocOk1, lockOk, mallocOk2) ==
    LET a1 == malloc(p, mallocOk1) IN
    IF a1.ptr = NULL THEN [ret |-> NULL, pool |-> a1.pool, lockCalls |-> 0]
    ELSE
    LET l == HAP_cache_lock(a1.pool, lockOk) IN
    IF l.ptr = NULL THEN [ret |-> NULL, pool |-> l.pool, lockCalls |-> 1]
    ELSE
    LET temp == a1.ptr
        a2   == malloc(l.pool, mallocOk2)
        n1   == [a2.pool EXCEPT
                   !.node[temp] = [descriptor |-> l.ptr, used |-> TRUE, next |-> a2.ptr]]
        n2   == IF a2.ptr # NULL
                THEN [n1 EXCEPT !.node[a2.ptr] =
                        [descriptor |-> l.ptr + descriptor_size,
                         used |-> FALSE, next |-> NULL]]
                ELSE n1
        n3   == IF prev # NULL THEN [n2 EXCEPT !.node[prev].next = temp]
                ELSE IF n2.dma_desc_pool = NULL
                     THEN [n2 EXCEPT !.dma_desc_pool = temp]
                     ELSE n2
    IN [ret |-> l.ptr, pool |-> n3, lockCalls |-> 1]

\* the growth half of desc_pool_get giving up when the second node cannot be
\* allocated
desc_pool_grow_need_pair(p, prev, mallocOk1, lockOk, mallocOk2) ==
    LET a1 == malloc(p, mallocOk1) IN
    IF a1.ptr = NULL THEN [ret |-> NULL, pool |-> a1.pool, lockCalls |-> 0]
    ELSE
    LET l == HAP_cache_lock(a1.pool, lockOk) IN
    IF l.ptr = NULL THEN [ret |-> NULL, pool |-> free(l.pool, a1.ptr), lockCalls |-> 1]
    ELSE
    LET temp == a1.ptr
        a2   == malloc(l.pool, mallocOk2)
        n1   == [a2.pool EXCEPT
                   !.node[temp] = [descriptor |-> l.ptr, used |-> TRUE, next |-> a2.ptr]]
        n2   == IF a2.ptr # NULL
                THEN [n1 EXCEPT !.node[a2.ptr] =
                        [descriptor |-> l.ptr + descriptor_size,
                         used |-> FALSE, next |-> NULL]]
                ELSE n1
        n3   == IF prev # NULL THEN [n2 EXCEPT !.node[prev].next = temp]
                ELSE IF n2.dma_desc_pool = NULL
                     THEN [n2 EXCEPT !.dma_desc_pool = temp]
                     ELSE n2
    IN IF a2.ptr = NULL
       THEN [ret |-> NULL, pool |-> free(l.pool, a1.ptr), lockCalls |-> 1]
       ELSE [ret |-> l.ptr, pool |-> n3, lockCalls |-> 1]

\* the growth half of desc_pool_get, reached when the walk found nothing
desc_pool_grow(p, prev, mallocOk1, lockOk, mallocOk2) ==
    LET a1 == malloc(p, mallocOk1) IN
    IF a1.ptr = NULL THEN [ret |-> NULL, pool |-> a1.pool, lockCalls |-> 0]
    ELSE
    LET l == HAP_cache_lock(a1.pool, lockOk) IN
    IF l.ptr = NULL THEN [ret |-> NULL, pool |-> free(l.pool, a1.ptr), lockCalls |-> 1]
    ELSE
    LET temp == a1.ptr
        a2   == malloc(l.pool, mallocOk2)
        n1   == [a2.pool EXCEPT
                   !.node[temp] = [descriptor |-> l.ptr, used |-> TRUE, next |-> a2.ptr]]
        n2   == IF a2.ptr # NULL
                THEN [n1 EXCEPT !.node[a2.ptr] =
                        [descriptor |-> l.ptr + descriptor_size,
                         used |-> FALSE, next |-> NULL]]
                ELSE n1
        n3   == IF prev # NULL THEN [n2 EXCEPT !.node[prev].next = temp]
                ELSE IF n2.dma_desc_pool = NULL
                     THEN [n2 EXCEPT !.dma_desc_pool = temp]
                     ELSE n2
    IN [ret |-> l.ptr, pool |-> n3, lockCalls |-> 1]

\* desc_pool_get cutting the list behind the unit it reuses
desc_pool_get_unlink(p, mallocOk1, lockOk, mallocOk2) ==
    LET w  == desc_pool_walk(p, p.dma_desc_pool, NULL, {})
        pw == [p EXCEPT !.uaf = @ \/ ~(w.visited \subseteq p.live)]
    IN IF w.found # NULL
       THEN [ret  |-> pw.node[w.found].descriptor,
             pool |-> [pw EXCEPT !.node[w.found].used = TRUE,
                                 !.node[w.found].next = NULL],
             lockCalls |-> 0]
       ELSE desc_pool_grow(pw, w.prev, mallocOk1, lockOk, mallocOk2)

\* desc_pool_get: reuse the first free descriptor, else lock two new ones
desc_pool_get(p, mallocOk1, lockOk, mallocOk2) ==
    LET w  == desc_pool_walk(p, p.dma_desc_pool, NULL, {})
        pw == [p EXCEPT !.uaf = @ \/ ~(w.visited \subseteq p.live)]
    IN IF w.found # NULL
       THEN [ret  |-> pw.node[w.found].descriptor,
             pool |-> [pw EXCEPT !.node[w.found].used = TRUE],
             lockCalls |-> 0]
       ELSE desc_pool_grow(pw, w.prev, mallocOk1, lockOk, mallocOk2)

\* the while loop of desc_pool_put: every node holding desc is marked free
RECURSIVE desc_pool_put_walk(_, _, _)
desc_pool_put_walk(p, temp, desc) ==
    IF temp = NULL THEN p
    ELSE LET q == [p EXCEPT !.uaf = @ \/ (temp \notin p.live)] IN
         desc_pool_put_walk(
            IF q.node[temp].descriptor = desc
            THEN [q EXCEPT !.node[temp].used = FALSE] ELSE q,
            q.node[temp].next, desc)

\* desc_pool_put with the walk started one node late
desc_pool_put_skip_head(p, desc) ==
    IF p.dma_desc_pool = NULL THEN p
    ELSE desc_pool_put_walk(p, p.node[p.dma_desc_pool].next, desc)

\* desc_pool_put with the comparison inverted
RECURSIVE desc_pool_put_walk_ne(_, _, _)
desc_pool_put_walk_ne(p, temp, desc) ==
    IF temp = NULL THEN p
    ELSE desc_pool_put_walk_ne(
            IF p.node[temp].descriptor # desc
            THEN [p EXCEPT !.node[temp].used = FALSE] ELSE p,
            p.node[temp].next, desc)
desc_pool_put_inverted(p, desc) == desc_pool_put_walk_ne(p, p.dma_desc_pool, desc)

\* desc_pool_put leaving every flag as it is
desc_pool_put_none(p, desc) == p

\* desc_pool_put, past its halide_assert(desc)
desc_pool_put(p, desc) == desc_pool_put_walk(p, p.dma_desc_pool, desc)

\* the while loop of desc_pool_free: unlock the first node of each two, free both
RECURSIVE desc_pool_free_walk(_, _)
desc_pool_free_walk(p, temp) ==
    IF temp = NULL THEN p
    ELSE LET temp2 == temp
             q     == [p EXCEPT !.uaf = @ \/ (temp \notin p.live)]
             nxt   == q.node[temp].next
             p1    == IF q.node[temp2].descriptor # NULL
                      THEN HAP_cache_unlock(q, q.node[temp2].descriptor) ELSE q
             p2    == free(p1, temp2)
         IN IF nxt # NULL
            THEN LET q2 == [p2 EXCEPT !.uaf = @ \/ (nxt \notin p2.live)]
                 IN desc_pool_free_walk(free(q2, nxt), q2.node[nxt].next)
            ELSE desc_pool_free_walk(p2, NULL)

\* desc_pool_free: dma_desc_pool itself is left as it was
desc_pool_free(p) == desc_pool_free_walk(p, p.dma_desc_pool)

(* ------------------------ views of the pool state --------------------- *)
\* the nodes reachable from dma_desc_pool, in list order
RECURSIVE ListFrom(_, _)
ListFrom(p, n) == IF n = NULL THEN <<>> ELSE <<n>> \o ListFrom(p, p.node[n].next)
PoolList(p) == ListFrom(p, p.dma_desc_pool)
PoolNodes(p) == {PoolList(p)[i] : i \in 1..Len(PoolList(p))}
\* descriptors of the units marked used
InUse(p) == {p.node[n].descriptor : n \in {m \in PoolNodes(p) : p.node[m].used}}
Descriptors(p) == {p.node[n].descriptor : n \in PoolNodes(p)}

(* ------------------------ transfer parameters ------------------------ *)
\* t_eDmaFmt, as halide_hexagon_get_dma_format yields it
ChromaFormats == {"NV12_UV", "P010_UV", "TP10_UV", "NV124R_UV"}
LumaFormats == {"NV12_Y", "P010_Y", "TP10_Y", "NV124R_Y"}
Formats == ChromaFormats \cup LumaFormats \cup
           {"NV12", "P010", "TP10", "NV124R", "RawData"}

\* a value stored into a uint16 field
U16(x) == x % 65536

\* malloc_device_handle: a fresh dma_device_handle
malloc_device_handle ==
    [buffer |-> 0, offset_rdx |-> 0, offset_rdy |-> 0, offset_wrx |-> 0,
     offset_wry |-> 0, dma_engine |-> 0, frame_width |-> 0, frame_height |-> 0,
     frame_stride |-> 0, is_ubwc |-> FALSE, is_write |-> FALSE, fmt |-> "RawData"]

\* buf->device == 0
NoDevice == [malloc_device_handle EXCEPT !.buffer = -1]

\* the halide_asserts on the device buffer's dimensions with the checks of
\* dim[2] left out
FormatAsserts_no_dim2(d, src) ==
    /\ (d.fmt = "RawData") => src.dimensions <= 3
    /\ (d.fmt \in LumaFormats) => src.dimensions = 2
    /\ (d.fmt \in ChromaFormats) =>
          /\ src.dimensions = 3
          /\ src.dim[0].stride = 2

\* the halide_asserts on the device buffer's dimensions, in order; a later
\* one is evaluated only when the earlier ones held
FormatAsserts(d, src) ==
    /\ (d.fmt = "RawData") => src.dimensions <= 3
    /\ (d.fmt \in LumaFormats) => src.dimensions = 2
    /\ (d.fmt \in ChromaFormats) =>
          /\ src.dimensions = 3
          /\ src.dim[0].stride = 2
          /\ src.dim[2].stride = 1
          /\ src.dim[2].min = 0
          /\ src.dim[2].extent = 2

\* stWalkSize as handed to nDmaWrapper_GetRecommendedWalkSize
WalkSizeSeed(dst) ==
    [u16W |-> U16(dst.dim[0].extent * dst.dim[0].stride),
     u16H |-> U16(dst.dim[1].extent)]

\* roi_stride left at the recommended stride
RoiStride_recommended(dst, recStride) == recStride

\* roi_stride: the recommended stride, unless dst->dim[1].stride is larger
RoiStride(dst, recStride) ==
    IF dst.dim[1].stride > recStride THEN dst.dim[1].stride ELSE recStride

\* halide_assert(user_context, ((dst->dim[1].stride % roi_stride) == 0))
StrideAssert(dst, roi_stride) == dst.dim[1].stride % roi_stride = 0

\* u16RoiX and u16RoiY as first assigned, by direction
RoiOrigin(d, dst) ==
    IF d.is_write
    THEN [x |-> U16(d.offset_wrx * dst.dim[0].stride),
          y |-> U16(d.offset_wry)]
    ELSE [x |-> U16((d.offset_rdx + dst.dim[0].min) * dst.dim[0].stride),
          y |-> U16(d.offset_rdy + dst.dim[1].min)]

\* the "Raw Format Planar" reassignment of u16RoiY
RawPlanarRoiY(d, src, dst, y) ==
    IF d.fmt = "RawData" /\ dst.dimensions = 3
    THEN U16(d.offset_rdy + dst.dim[1].min + dst.dim[2].min * src.dim[1].stride)
    ELSE y

\* the chroma compensation of u16RoiY with the rebase by frame_height left out
ChromaRoiY_no_rebase(d, y) ==
    IF d.fmt \in ChromaFormats THEN U16(y * 2) ELSE y

\* the chroma compensation of u16RoiY
ChromaRoiY(d, y) ==
    IF d.fmt \in ChromaFormats
    THEN IF d.is_write THEN U16(y * 2) ELSE U16((y - d.frame_height) * 2)
    ELSE y

\* the chroma compensation of u16RoiH
ChromaRoiH(d, roi_height) ==
    IF d.fmt \in ChromaFormats THEN U16(roi_height * 2) ELSE U16(roi_height)

\* stDmaTransferParm as passed to nDmaWrapper_DmaTransferSetup
TransferParm(d, src, dst, rec, roi_stride, desc_addr) ==
    LET o == RoiOrigin(d, dst) IN
    [eFmt           |-> d.fmt,
     u16FrameW      |-> U16(d.frame_width),
     u16FrameH      |-> U16(d.frame_height),
     u16FrameStride |-> U16(d.frame_stride),
     u16RoiW        |-> rec.u16W,
     u16RoiH        |-> ChromaRoiH(d, rec.u16H),
     u16RoiStride   |-> U16(roi_stride),
     bIsFmtUbwc     |-> d.is_ubwc,
     pDescBuf       |-> desc_addr,
     pFrameBuf      |-> d.buffer,
     eTransferType  |-> IF d.is_write THEN "eDmaWrapper_L2ToDdr"
                        ELSE "eDmaWrapper_DdrToL2",
     u16RoiX        |-> o.x,
     u16RoiY        |-> ChromaRoiY(d, RawPlanarRoiY(d, src, dst, o.y))]

\* The part of halide_hexagon_dma_wrapper that depends on the buffers alone:
\* which assertion stops it, if any, and the parameters it would set up.
NoParm == [eFmt |-> "none"]
PlanTransfer(r) ==
    IF ~FormatAsserts(r.dev, r.src)
    THEN [outcome |-> "format_assert", parm |-> NoParm]
    ELSE LET roi_stride == RoiStride(r.dst, r.rec.stride) IN
         IF ~StrideAssert(r.dst, roi_stride)
         THEN [outcome |-> "stride_assert", parm |-> NoParm]
         ELSE [outcome |-> "planned",
               parm |-> TransferParm(r.dev, r.src, r.dst, r.rec, roi_stride, NULL)]

\* before any request, computation or transfer
NoRequest == [dev |-> NoDevice]
NoPlan == [outcome |-> "none", parm |-> NoParm]
NoTransfer == [ret |-> "none"]

(* ------------- buffers, device handles and frame memory --------------- *)
\* crops that can exist beside the parent buffer, dma_device_handle structs
\* and frame allocations the heap can hand out
MaxCrops == 2
MaxHandles == 3
MaxFrames == 2

\* buffer 0 is the parent, the others are the dst buffers of device_crop
Bufs == 0..MaxCrops
Crops == 1..MaxCrops
HandleIds == 1..MaxHandles
FrameIds == 1..MaxFrames

\* device: buf->device per buffer (0: none); min: dim[0].min and dim[1].min
\* per buffer; handle: the contents of each struct, kept as they were when
\* it is freed; hlive, mlive: what is allocated; hfrees, mfrees: calls of
\* free / halide_free per address; last: the most recent call, its buffer
\* and, for a crop, the buffer cropped from
InitHeap ==
    [device  |-> [b \in Bufs |-> 0],
     min     |-> [b \in Bufs |-> <<0, 0>>],
     handle  |-> [h \in HandleIds |-> malloc_device_handle],
     hlive   |-> {},
     nHandles |-> 0,
     hfrees  |-> [h \in HandleIds |-> 0],
     mlive   |-> {},
     nFrames |-> 0,
     mfrees  |-> [m \in FrameIds |-> 0],
     last    |-> [op |-> "none", buf |-> 0, src |-> 0, ret |-> "none"]]

\* the result of a call: the heap after it and how the program goes on
Went(h, op, buf, ret) ==
    [heap |-> [h EXCEPT !.last = [op |-> op, buf |-> buf, src |-> buf, ret |-> ret]],
     status |-> "running"]
Stopped(h, op, buf, how) ==
    [heap |-> [h EXCEPT !.last = [op |-> op, buf |-> buf, src |-> buf, ret |-> how]],
     status |-> how]

\* free((dma_device_handle *)buf->device); buf->device = 0.  Nothing points
\* at the struct afterwards, so its contents are not kept.
FreeHandle(h, b) ==
    [h EXCEPT !.hlive = @ \ {h.device[b]},
              !.hfrees[h.device[b]] = @ + 1,
              !.handle[h.device[b]] = malloc_device_handle,
              !.device[b] = 0]

\* halide_hexagon_dma_device_wrap_native(buf, handle) with handle = frame
\* mem; hOk: malloc in malloc_device_handle succeeds.  malloc_device_handle
\* writes the fields before anybody tests the pointer.
WrapNative(h, op, b, mem, hOk) ==
    IF h.device[b] # 0 THEN Stopped(h, op, b, "aborted")
    ELSE IF ~hOk \/ h.nHandles = MaxHandles THEN Stopped(h, op, b, "crashed")
    ELSE LET k == h.nHandles + 1 IN
         Went([h EXCEPT
                 !.nHandles = k, !.hlive = @ \cup {k}, !.device[b] = k,
                 !.handle[k] = [malloc_device_handle EXCEPT
                                  !.buffer = mem, !.dma_engine = 0,
                                  !.frame_width = 64, !.frame_height = 4,
                                  !.frame_stride = 64]],
              op, b, "success")

\* halide_malloc / the caller's allocation of a frame
NewFrame(h) == [h EXCEPT !.nFrames = @ + 1, !.mlive = @ \cup {h.nFrames + 1}]

\* halide_hexagon_dma_device_malloc(buf)
DeviceMalloc(h, b, mOk, hOk) ==
    IF h.device[b] # 0 THEN Went(h, "device_malloc", b, "success")
    ELSE IF ~mOk \/ h.nFrames = MaxFrames
    THEN Went(h, "device_malloc", b, "out_of_memory")
    ELSE WrapNative(NewFrame(h), "device_malloc", b, h.nFrames + 1, hOk)

\* halide_hexagon_dma_device_crop with the parent's write offsets copied as
\* they are
DeviceCrop_same_offsets(h0, src, dst, mn, hOk) ==
    LET h == [h0 EXCEPT !.min[dst] = mn] IN
    IF ~hOk \/ h.nHandles = MaxHandles \/ h.device[src] = 0
    THEN Stopped(h, "device_crop", dst, "crashed")
    ELSE LET k == h.nHandles + 1
             s == h.handle[h.device[src]]
             r == Went([h EXCEPT
                    !.nHandles = k, !.hlive = @ \cup {k}, !.device[dst] = k,
                    !.handle[k] = [s EXCEPT !.offset_rdx = 0, !.offset_rdy = 0]],
                 "device_crop", dst, "success")
         IN [r EXCEPT !.heap.last.src = src]

\* halide_hexagon_dma_device_crop(src, dst), dst->dim[].min being mn
DeviceCrop(h0, src, dst, mn, hOk) ==
    LET h == [h0 EXCEPT !.min[dst] = mn] IN
    IF ~hOk \/ h.nHandles = MaxHandles \/ h.device[src] = 0
    THEN Stopped(h, "device_crop", dst, "crashed")
    ELSE LET k == h.nHandles + 1
             s == h.handle[h.device[src]]
             r == Went([h EXCEPT
                    !.nHandles = k, !.hlive = @ \cup {k}, !.device[dst] = k,
                    !.handle[k] = [malloc_device_handle EXCEPT
                        !.buffer = s.buffer,
                        !.offset_wrx = s.offset_wrx + mn[1] - h.min[src][1],
                        !.offset_wry = s.offset_wry + mn[2] - h.min[src][2],
                        !.dma_engine = s.dma_engine,
                        !.frame_width = s.frame_width,
                        !.frame_height = s.frame_height,
                        !.frame_stride = s.frame_stride,
                        !.is_ubwc = s.is_ubwc, !.is_write = s.is_write,
                        !.fmt = s.fmt]],
                 "device_crop", dst, "success")
         IN [r EXCEPT !.heap.last.src = src]

\* halide_hexagon_dma_device_release_crop(buf)
ReleaseCrop(h, b) ==
    IF h.device[b] = 0 THEN Stopped(h, "release_crop", b, "aborted")
    ELSE Went(FreeHandle(h, b), "release_crop", b, "success")

\* halide_hexagon_dma_device_detach_native(buf)
DetachNative(h, op, b) ==
    IF h.device[b] = 0 THEN Went(h, op, b, "success")
    ELSE Went(FreeHandle(h, b), op, b, "success")

\* halide_hexagon_dma_device_free(buf): dev->buffer is read before anything
\* tests buf->device
DeviceFree(h, b) ==
    IF h.device[b] = 0 THEN Stopped(h, "device_free", b, "crashed")
    ELSE LET mem == h.handle[h.device[b]].buffer
             d   == DetachNative(h, "device_free", b).heap
         IN Went([d EXCEPT !.mlive = @ \ {mem}, !.mfrees[mem] = @ + 1],
                 "device_free", b, "success")

(* ------------------- desc_pool_get, statement by statement ------------ *)
\* There is no lock around dma_desc_pool, so callers on different threads
\* interleave between the statements of desc_pool_get.
Threads == 1..NThreads
IdleThread == [pc |-> "idle", temp |-> NULL, prev |-> NULL, ret |-> NULL]

\* pdesc_pool temp = dma_desc_pool; pdesc_pool prev = NULL;
GetStart(t) ==
    /\ status = "running"
    /\ thr[t].pc = "idle"
    /\ thr' = [thr EXCEPT ![t] = [pc |-> "loop", temp |-> pool.dma_desc_pool,
                                  prev |-> NULL, ret |-> NULL]]
    /\ UNCHANGED <<pool, prevPool, hist, status, frameVars, leases>>

\* while (temp != NULL) { if (!temp->used) ...; prev = temp; temp = temp->next; }
GetLoop(t) ==
    /\ status = "running"
    /\ thr[t].pc = "loop"
    /\ thr' = [thr EXCEPT ![t] =
                 IF thr[t].temp = NULL THEN [@ EXCEPT !.pc = "grow"]
                 ELSE IF ~pool.node[thr[t].temp].used THEN [@ EXCEPT !.pc = "mark"]
                 ELSE [@ EXCEPT !.prev = thr[t].temp,
                                !.temp = pool.node[thr[t].temp].next]]
    /\ UNCHANGED <<pool, prevPool, hist, status, frameVars, leases>>

\* temp->used = true; return temp->descriptor;
GetMark(t) ==
    /\ status = "running"
    /\ thr[t].pc = "mark"
    /\ pool' = [pool EXCEPT !.node[thr[t].temp].used = TRUE]
    /\ thr' = [thr EXCEPT ![t] = [@ EXCEPT !.pc = "done",
                                  !.ret = pool.node[thr[t].temp].descriptor]]
    /\ UNCHANGED <<prevPool, hist, status, frameVars, leases>>

\* the two mallocs, HAP_cache_lock and the writes to the new nodes, which no
\* other thread can see yet
GetGrow(t) ==
    /\ status = "running"
    /\ thr[t].pc = "grow"
    /\ \E mallocOk1 \in BOOLEAN, lockOk \in BOOLEAN, mallocOk2 \in BOOLEAN :
         LET a1 == malloc(pool, mallocOk1)
             l  == HAP_cache_lock(a1.pool, lockOk)
             a2 == malloc(l.pool, mallocOk2)
         IN IF a1.ptr = NULL
            THEN /\ pool' = a1.pool
                 /\ thr' = [thr EXCEPT ![t] = [@ EXCEPT !.pc = "done", !.ret = NULL]]
            ELSE IF l.ptr = NULL
            THEN /\ pool' = free(l.pool, a1.ptr)
                 /\ thr' = [thr EXCEPT ![t] = [@ EXCEPT !.pc = "done", !.ret = NULL]]
            ELSE /\ pool' = [a2.pool EXCEPT
                       !.node = [n \in NodeIds |->
                          IF n = a1.ptr
                          THEN [descriptor |-> l.ptr, used |-> TRUE, next |-> a2.ptr]
                          ELSE IF n = a2.ptr
                          THEN [descriptor |-> l.ptr + descriptor_size,
                                used |-> FALSE, next |-> NULL]
                          ELSE a2.pool.node[n]]]
                 /\ thr' = [thr EXCEPT ![t] = [@ EXCEPT !.pc = "link", !.temp = a1.ptr,
                                               !.ret = l.ptr]]
    /\ UNCHANGED <<prevPool, hist, status, frameVars, leases>>

\* if (prev != NULL) prev->next = temp; else if (dma_desc_pool == NULL) dma_desc_pool = temp;
GetLink(t) ==
    /\ status = "running"
    /\ thr[t].pc = "link"
    /\ pool' = IF thr[t].prev # NULL
               THEN [pool EXCEPT !.node[thr[t].prev].next = thr[t].temp]
               ELSE IF pool.dma_desc_pool = NULL
                    THEN [pool EXCEPT !.dma_desc_pool = thr[t].temp]
                    ELSE pool
    /\ thr' = [thr EXCEPT ![t] = [@ EXCEPT !.pc = "done"]]
    /\ UNCHANGED <<prevPool, hist, status, frameVars, leases>>

\* the caller is finished with its descriptor: desc_pool_put(ret), or nothing
\* to return when desc_pool_get gave NULL
PutBack(t) ==
    /\ status = "running"
    /\ thr[t].pc = "done"
    /\ pool' = IF thr[t].ret = NULL THEN pool ELSE desc_pool_put(pool, thr[t].ret)
    /\ thr' = [thr EXCEPT ![t] = IdleThread]
    /\ UNCHANGED <<prevPool, hist, status, frameVars, leases>>

(* ------------------------- pool operations ---------------------------- *)
\* hist keeps the last three pool operations
Push(h, e) == IF Len(h) < 3 THEN Append(h, e) ELSE Append(Tail(h), e)

\* What a read of a freed desc_pool_t may yield: the stale contents, or the
\* pattern an allocator writes over freed memory.  Only nodes still linked
\* from dma_desc_pool after desc_pool_free are affected.
Poison == [descriptor |-> NULL, used |-> TRUE, next |-> NULL]
Dangling(p) == PoolNodes(p) \ p.live
FreedReads(p) ==
    {[p EXCEPT !.node = [n \in NodeIds |-> IF n \in S THEN Poison ELSE p.node[n]]] :
        S \in SUBSET Dangling(p)}

\* The ways an operation that ended as q (from p0) can end: normally, or,
\* when it touched freed memory, with a fault at the first such access or
\* with whatever the stale memory made it do.
Outcomes(p0, q) ==
    IF q.uaf
    THEN {[status |-> "crashed", pool |-> [p0 EXCEPT !.uaf = TRUE]],
          [status |-> "undefined", pool |-> q]}
    ELSE {[status |-> "running", pool |-> q]}

\* Bookkeeping on the callers' side of desc_pool_get and desc_pool_put.
\* out: the descriptors returned by desc_pool_get and not yet handed to
\* desc_pool_put; twice: whether desc_pool_get has returned a descriptor that
\* was out; peak: the largest number of descriptors out at once; failed:
\* whether a malloc or a HAP_cache_lock of a desc_pool_get has failed.
NoLeases == [out |-> {}, twice |-> FALSE, peak |-> 0, failed |-> FALSE]

\* after desc_pool_get returned ret
Got(l, ret, allocFailed) ==
    LET out == IF ret # NULL THEN l.out \cup {ret} ELSE l.out IN
    [out    |-> out,
     twice  |-> l.twice \/ (ret # NULL /\ ret \in l.out),
     peak   |-> IF Cardinality(out) > l.peak THEN Cardinality(out) ELSE l.peak,
     failed |-> l.failed \/ allocFailed]

\* after desc_pool_put(desc) returned
PutBy(l, desc) == [l EXCEPT !.out = @ \ {desc}]

\* a caller leases a descriptor
Lease ==
    /\ status = "running"
    /\ UNCHANGED <<thr, frameVars>>
    /\ \E mallocOk1 \in BOOLEAN, lockOk \in BOOLEAN, mallocOk2 \in BOOLEAN :
       \E seen \in FreedReads(pool) :
         LET r == desc_pool_get(seen, mallocOk1, lockOk, mallocOk2) IN
         \E out \in Outcomes(pool, r.pool) :
           /\ pool' = out.pool
           /\ status' = out.status
           /\ prevPool' = pool
           /\ hist' = Push(hist, [op |-> "get", desc |-> r.ret,
                                  lockCalls |-> r.lockCalls])
           /\ leases' = Got(leases, r.ret,
                            r.ret = NULL \/ (r.lockCalls = 1 /\ r.pool.nMalloc = seen.nMalloc + 1))

\* pointers a caller may hand to desc_pool_put: any descriptor address, NULL,
\* or one past the last lockable region (never in the list)
Stray == LockBase(MaxLocks + 1)
PutArgs == Addr \cup {NULL, Stray}

\* a caller returns a descriptor; halide_assert(desc) aborts on NULL
Release ==
    /\ status = "running"
    /\ UNCHANGED <<thr, frameVars>>
    /\ \E desc \in PutArgs :
         IF desc = NULL
         THEN /\ status' = "aborted"
              /\ UNCHANGED <<pool, prevPool, hist, leases>>
         ELSE \E seen \in FreedReads(pool) :
              \E out \in Outcomes(pool, desc_pool_put(seen, desc)) :
                /\ pool' = out.pool
                /\ status' = out.status
                /\ prevPool' = pool
                /\ hist' = Push(hist, [op |-> "put", desc |-> desc, lockCalls |-> 0])
                /\ leases' = PutBy(leases, desc)

\* halide_hexagon_dma_deallocate_engine: halide_assert(dma_engine), then
\* desc_pool_free, then the engine goes back to halide_hexagon_free_dma_resource
halide_hexagon_dma_deallocate_engine ==
    /\ status = "running"
    /\ UNCHANGED <<thr, frameVars, leases>>
    /\ \E dma_engine \in {NULL, 1} :
         IF dma_engine = NULL
         THEN /\ status' = "aborted"
              /\ UNCHANGED <<pool, prevPool, hist>>
         ELSE \E seen \in FreedReads(pool) :
              \E out \in Outcomes(pool, desc_pool_free(seen)) :
                /\ pool' = out.pool
                /\ status' = out.status
                /\ prevPool' = pool
                /\ hist' = Push(hist, [op |-> "free", desc |-> NULL, lockCalls |-> 0])

Init ==
    /\ pool = InitPool
    /\ prevPool = InitPool
    /\ hist = <<>>
    /\ status = "running"
    /\ thr = [t \in Threads |-> IdleThread]
    /\ heap = InitHeap
    /\ leases = NoLeases
    /\ dev = NoDevice
    /\ engine = 0
    /\ xfer = NoTransfer
    /\ req = NoRequest
    /\ plan = NoPlan

\* leases and releases in any order
NextPool == Lease \/ Release
SpecPool == Init /\ [][NextPool]_vars

\* leases, releases and engine deallocations in any order
NextTeardown == Lease \/ Release \/ halide_hexagon_dma_deallocate_engine
SpecTeardown == Init /\ [][NextTeardown]_vars

(* -------------------- one parameter computation ----------------------- *)
Dim(min, extent, stride) == [min |-> min, extent |-> extent, stride |-> stride]

\* Handles as wrap_native, prepare_for_copy and device_crop leave them: the read
\* offsets are never written after malloc_device_handle, and a chroma format
\* comes with a doubled (even) frame_height.
PlanHandles ==
    {[malloc_device_handle EXCEPT
         !.buffer = 1, !.dma_engine = 1, !.fmt = f, !.is_write = w, !.is_ubwc = u,
         !.offset_wrx = 2, !.offset_wry = wy,
         !.frame_width = 64, !.frame_height = fh, !.frame_stride = 64] :
       f \in Formats, w \in BOOLEAN, u \in BOOLEAN, wy \in {0, 40000},
       fh \in {4, 2160}}

\* the device-side buffer: 2 to 4 dimensions, interleaved or not
PlanSrcBuffers ==
    {[dimensions |-> n,
      dim |-> [i \in 0..2 |-> IF i = 0 THEN Dim(0, 64, s0)
                              ELSE IF i = 1 THEN Dim(0, 4, 64)
                              ELSE Dim(0, 2, 1)]] :
       n \in 2..4, s0 \in 1..2}

\* the on-chip buffer: its stride may be below, at, above or a multiple of the
\* recommended one
PlanDstBuffers ==
    {[dimensions |-> n,
      dim |-> [i \in 0..2 |-> IF i = 0 THEN Dim(1, 32, 2)
                              ELSE IF i = 1 THEN Dim(m1, 8, st)
                              ELSE Dim(m2, 2, 1)]] :
       n \in 2..3, m1 \in {-1, 0, 2200}, st \in {0, 32, 64, 100, 128},
       m2 \in 0..1}

\* what nDmaWrapper_GetRecommendedWalkSize and
\* nDmaWrapper_GetRecommendedIntermBufStride answer
PlanRecommendations ==
    {[u16W |-> 64, u16H |-> h, stride |-> st] : h \in {8, 40000}, st \in {64, 128}}

PlanInit ==
    /\ pool = InitPool
    /\ prevPool = InitPool
    /\ hist = <<>>
    /\ status = "running"
    /\ thr = [t \in Threads |-> IdleThread]
    /\ heap = InitHeap
    /\ leases = NoLeases
    /\ dev = NoDevice
    /\ engine = 0
    /\ xfer = NoTransfer
    /\ req \in [dev : PlanHandles, src : PlanSrcBuffers, dst : PlanDstBuffers,
                rec : PlanRecommendations]
    /\ plan = NoPlan

\* the parameters are computed from the request
ComputePlan ==
    /\ plan = NoPlan
    /\ plan' = PlanTransfer(req)
    /\ UNCHANGED <<pool, prevPool, hist, status, thr, heap, leases, dev, engine, xfer, req>>

SpecPlan == PlanInit /\ [][ComputePlan]_vars

(* --------------------------- the transfer ----------------------------- *)
\* the engine pool hands out at most this many engine instances at a time
MaxEngines == 2
\* prepare_for_copy doubles frame_height of a chroma handle up to this height
MaxFrameHeight == 8

\* the calls after nDmaWrapper_Wait succeeded: the descriptor is not put back
TransferFinish_no_put(p, eng, desc_addr, releaseRc) ==
    [ret    |-> IF releaseRc # "success" THEN releaseRc ELSE "success",
     pool   |-> p,
     engine |-> eng - 1,
     calls  |-> <<"desc_pool_put", "halide_hexagon_free_to_dma_pool">>]

\* the calls after nDmaWrapper_Wait succeeded: desc_pool_put, then
\* halide_hexagon_free_to_dma_pool, whose error code is returned
TransferFinish(p, eng, desc_addr, releaseRc) ==
    [ret    |-> IF releaseRc # "success" THEN releaseRc ELSE "success",
     pool   |-> desc_pool_put(p, desc_addr),
     engine |-> eng - 1,
     calls  |-> <<"desc_pool_put", "halide_hexagon_free_to_dma_pool">>]

\* The engine calls of halide_hexagon_dma_wrapper, from
\* halide_hexagon_allocate_from_dma_pool on.  fail names the first call that
\* does not succeed ("none": all succeed); the pool has no instance left
\* when MaxEngines are out.
EngineCalls == <<"halide_hexagon_allocate_from_dma_pool", "nDmaWrapper_DmaTransferSetup",
                 "nDmaWrapper_Move", "nDmaWrapper_Wait">>
FailPoints == {"none", "acquire", "setup", "move", "wait"}
\* the engine calls with nDmaWrapper_Move issued although the setup failed
TransferEngine_move_after_setup(p, eng, desc_addr, fail, releaseRc) ==
    LET failed(n) == [ret |-> "device_buffer_copy_failed", pool |-> p,
                      engine |-> IF n = 1 THEN eng ELSE eng + 1,
                      calls |-> SubSeq(EngineCalls, 1, n)]
    IN IF fail = "acquire" \/ eng >= MaxEngines THEN failed(1)
       ELSE IF fail = "setup" THEN failed(3)
       ELSE IF fail = "move" THEN failed(3)
       ELSE IF fail = "wait" THEN failed(4)
       ELSE LET f == TransferFinish(p, eng + 1, desc_addr, releaseRc)
            IN [f EXCEPT !.calls = EngineCalls \o @]

TransferEngine(p, eng, desc_addr, fail, releaseRc) ==
    LET failed(n) == [ret |-> "device_buffer_copy_failed", pool |-> p,
                      engine |-> IF n = 1 THEN eng ELSE eng + 1,
                      calls |-> SubSeq(EngineCalls, 1, n)]
    IN IF fail = "acquire" \/ eng >= MaxEngines THEN failed(1)
       ELSE IF fail = "setup" THEN failed(2)
       ELSE IF fail = "move" THEN failed(3)
       ELSE IF fail = "wait" THEN failed(4)
       ELSE LET f == TransferFinish(p, eng + 1, desc_addr, releaseRc)
            IN [f EXCEPT !.calls = EngineCalls \o @]

\* what the two mallocs and HAP_cache_lock of a growing desc_pool_get do
GrowOutcomes ==
    {[mallocOk1 |-> TRUE, lockOk |-> TRUE, mallocOk2 |-> TRUE],
     [mallocOk1 |-> TRUE, lockOk |-> TRUE, mallocOk2 |-> FALSE],
     [mallocOk1 |-> TRUE, lockOk |-> FALSE, mallocOk2 |-> TRUE],
     [mallocOk1 |-> FALSE, lockOk |-> TRUE, mallocOk2 |-> TRUE]}

\* halide_hexagon_dma_wrapper with desc_pool_get moved in front of the
\* assertions
halide_hexagon_dma_wrapper_lease_first(p, eng, pl, grow, fail, releaseRc) ==
    LET g  == desc_pool_get(p, grow.mallocOk1, grow.lockOk, grow.mallocOk2)
        stopped(ret, calls, q, lc) ==
            [ret |-> ret, pool |-> q, engine |-> eng, calls |-> calls,
             desc |-> NULL, lockCalls |-> lc, parm |-> NoParm]
    IN IF g.ret = NULL
       THEN stopped("device_buffer_copy_failed", <<"desc_pool_get">>, g.pool, g.lockCalls)
       ELSE IF pl.outcome # "planned"
       THEN stopped("aborted", <<"desc_pool_get">>, g.pool, g.lockCalls)
       ELSE LET e == TransferEngine(g.pool, eng, g.ret, fail, releaseRc)
            IN [ret |-> e.ret, pool |-> e.pool, engine |-> e.engine,
                calls |-> <<"desc_pool_get">> \o e.calls,
                desc |-> g.ret, lockCalls |-> g.lockCalls,
                parm |-> IF Len(e.calls) >= 2
                         THEN [pl.parm EXCEPT !.pDescBuf = g.ret] ELSE NoParm]

\* halide_hexagon_dma_wrapper(src, dst) with dev = src->device: the outcome
\* of one transfer, pl being PlanTransfer of its buffers.  "aborted" is a
\* failed halide_assert.
halide_hexagon_dma_wrapper(p, eng, pl, grow, fail, releaseRc) ==
    LET g  == desc_pool_get(p, grow.mallocOk1, grow.lockOk, grow.mallocOk2)
        stopped(ret, calls, q, lc) ==
            [ret |-> ret, pool |-> q, engine |-> eng, calls |-> calls,
             desc |-> NULL, lockCalls |-> lc, parm |-> NoParm]
    IN IF pl.outcome # "planned"
       THEN stopped("aborted", <<>>, p, 0)
       ELSE IF g.ret = NULL
       THEN stopped("device_buffer_copy_failed", <<"desc_pool_get">>, g.pool, g.lockCalls)
       ELSE LET e == TransferEngine(g.pool, eng, g.ret, fail, releaseRc)
            IN [ret |-> e.ret, pool |-> e.pool, engine |-> e.engine,
                calls |-> <<"desc_pool_get">> \o e.calls,
                desc |-> g.ret, lockCalls |-> g.lockCalls,
                parm |-> IF Len(e.calls) >= 2
                         THEN [pl.parm EXCEPT !.pDescBuf = g.ret] ELSE NoParm]

(* ---------------------- device-interface entry points ----------------- *)
\* the buffer handed to wrap_native and the device-side buffer of a copy
FrameBuffers == {b \in PlanSrcBuffers : b.dimensions <= 3}
\* the on-chip buffer of a copy: one that passes the stride assertion, one that fails it
HostBuffers == {b \in PlanDstBuffers :
                  /\ b.dimensions = 2 /\ b.dim[1].min = 0 /\ b.dim[2].min = 0
                  /\ b.dim[1].stride \in {32, 64}}
TheRecommendation == [u16W |-> 64, u16H |-> 8, stride |-> 64]

\* halide_hexagon_dma_device_wrap_native(buf, handle)
halide_hexagon_dma_device_wrap_native ==
    /\ status = "running"
    /\ \E buf \in {b \in FrameBuffers : b.dimensions = 2 /\ b.dim[0].stride = 1} :
         IF dev # NoDevice
         THEN /\ status' = "aborted"
              /\ UNCHANGED dev
         ELSE /\ dev' = [malloc_device_handle EXCEPT
                           !.buffer = 1, !.dma_engine = 0,
                           !.frame_width = buf.dim[0].extent * buf.dim[0].stride,
                           !.frame_height = buf.dim[1].extent,
                           !.frame_stride = buf.dim[1].stride]
              /\ UNCHANGED status
    /\ UNCHANGED <<pool, prevPool, hist, thr, heap, leases, engine, xfer, req, plan>>

\* dma_prepare_for_copy on the frame buffer's handle
dma_prepare_for_copy(d, dma_engine, is_ubwc, fmt, is_write) ==
    [d EXCEPT !.dma_engine = dma_engine, !.is_ubwc = is_ubwc, !.fmt = fmt,
              !.is_write = is_write,
              !.frame_height = IF fmt \in ChromaFormats THEN @ * 2 ELSE @]

\* the formats callers prepare the frame for here: a luma and a chroma plane
\* (an unprepared handle has eDmaFmt_RawData)
CopyFormats == {"NV12_Y", "NV12_UV"}

\* halide_hexagon_dma_prepare_for_copy_to_host / _to_device: the tags of
\* halide_hexagon_image_fmt_t map one to one onto t_eDmaFmt
PrepareForCopy(is_write) ==
    /\ status = "running"
    /\ dev # NoDevice
    /\ \E dma_engine \in {NULL, 1}, is_ubwc \in {FALSE}, fmt \in CopyFormats :
         /\ fmt \in ChromaFormats => dev.frame_height * 2 <= MaxFrameHeight
         /\ IF dma_engine = NULL
            THEN /\ status' = "aborted"
                 /\ UNCHANGED dev
            ELSE /\ dev' = dma_prepare_for_copy(dev, dma_engine, is_ubwc, fmt, is_write)
                 /\ UNCHANGED status
    /\ UNCHANGED <<pool, prevPool, hist, thr, heap, leases, engine, xfer, req, plan>>

halide_hexagon_dma_prepare_for_copy_to_host == PrepareForCopy(FALSE)
halide_hexagon_dma_prepare_for_copy_to_device == PrepareForCopy(TRUE)

\* The halide_buffer_t arguments of a copy, by what they are attached to:
\* the frame buffer (device = dev, interface = hexagon_dma once wrapped), an
\* on-chip or host buffer without device, or a buffer of another device
\* interface.  A buffer without device is never device_dirty.
CopyBuffers ==
    {b \in [kind : {"frame", "l2", "foreign"}, dirty : BOOLEAN, host : BOOLEAN] :
        b.kind = "l2" => ~b.dirty}
\* buf->device != 0, and buf->device being a dma_device_handle; wrapped tells
\* whether the frame buffer has its handle
HasDevice(wrapped, b) == (b.kind = "frame" /\ wrapped) \/ b.kind = "foreign"
IsDmaBuffer(wrapped, b) == b.kind = "frame" /\ wrapped

\* halide_hexagon_dma_buffer_copy up to the call of halide_hexagon_dma_wrapper:
\* "aborted" for a failed halide_assert, "foreign_error" for the error of the
\* source's own device interface, "wrapper" when the wrapper is called on the
\* frame's handle and "undefined" when it would read another interface's
\* device field as a dma_device_handle
CopyRoute(wrapped, src0, iface, dst, foreignOk) ==
    LET to(r) == [route |-> r, iface |-> IF r = "aborted" THEN "any" ELSE iface] IN
    IF iface \notin {"null", "dma"} THEN to("aborted")
    ELSE
    LET viaForeign == src0.dirty /\ ~IsDmaBuffer(wrapped, src0) IN
    IF viaForeign /\ iface # "dma" THEN to("aborted")
    ELSE IF viaForeign /\ ~foreignOk THEN to("foreign_error")
    ELSE
    LET src       == IF viaForeign THEN dst ELSE src0
        from_host == ~src.dirty /\ src.host
        to_host   == iface = "null"
        device    == IF iface = "dma" THEN dst ELSE src
    IN IF ~(from_host \/ HasDevice(wrapped, src)) THEN to("aborted")
       ELSE IF ~(to_host \/ HasDevice(wrapped, dst)) THEN to("aborted")
       ELSE IF ~((~from_host /\ to_host) \/ (from_host /\ ~to_host))
       THEN to("aborted")
       ELSE IF IsDmaBuffer(wrapped, device) THEN to("wrapper")
       ELSE to("undefined")

\* the routes a copy can take with the buffers callers may pass, each with
\* the dst_device_interface that leads to it
CopyRoutesOf(wrapped) ==
    {CopyRoute(wrapped, src, iface, dst, foreignOk) :
        src \in CopyBuffers, dst \in CopyBuffers,
        iface \in {"null", "dma", "other"}, foreignOk \in BOOLEAN}
RoutesWrapped == CopyRoutesOf(TRUE)
RoutesUnwrapped == CopyRoutesOf(FALSE)
CopyRoutes == IF dev # NoDevice THEN RoutesWrapped ELSE RoutesUnwrapped

\* the transfer parameters for the buffers callers may pass with the frame
CopyPlans ==
    {PlanTransfer([dev |-> dev, src |-> devbuf, dst |-> hostbuf,
                   rec |-> TheRecommendation]) :
       devbuf \in FrameBuffers, hostbuf \in HostBuffers}

\* the allocation outcomes that matter to a lease from p: none when a free
\* unit is found
GrowChoices(p) ==
    IF desc_pool_walk(p, p.dma_desc_pool, NULL, {}).found # NULL
    THEN {[mallocOk1 |-> TRUE, lockOk |-> TRUE, mallocOk2 |-> TRUE]}
    ELSE GrowOutcomes

\* the first engine call that fails, and halide_hexagon_free_to_dma_pool's
\* result when none does
EngineOutcomes ==
    {[fail |-> f, releaseRc |-> "success"] : f \in FailPoints} \cup
    {[fail |-> "none", releaseRc |-> "generic_error"]}

\* what a finished halide_hexagon_dma_buffer_copy leaves in xfer; releaseRc
\* is halide_hexagon_free_to_dma_pool's result when it was called
Transfer(ret, iface, w, releaseRc) ==
    [ret |-> ret, iface |-> iface, calls |-> w.calls, desc |-> w.desc,
     lockCalls |-> w.lockCalls,
     eTransferType |-> IF w.parm = NoParm THEN "none" ELSE w.parm.eTransferType,
     prepared |-> dev.dma_engine # NULL,
     releaseRc |-> IF Len(w.calls) = Len(EngineCalls) + 3 THEN releaseRc ELSE "none",
     engineBefore |-> engine]
NoCalls == [calls |-> <<>>, desc |-> NULL, lockCalls |-> 0, parm |-> NoParm]

\* halide_hexagon_dma_buffer_copy(src, dst_device_interface, dst)
halide_hexagon_dma_buffer_copy ==
    /\ status = "running"
    /\ \E c \in CopyRoutes :
         IF c.route = "aborted"
         THEN /\ status' = "aborted"
              /\ UNCHANGED <<pool, prevPool, engine, xfer>>
         ELSE IF c.route = "foreign_error"
         THEN /\ xfer' = Transfer("foreign_error", c.iface, NoCalls, "none")
              /\ prevPool' = pool
              /\ UNCHANGED <<pool, engine, status>>
         ELSE IF c.route = "undefined"
         THEN /\ status' = "undefined"
              /\ UNCHANGED <<pool, prevPool, engine, xfer>>
         ELSE \E pl \in CopyPlans :
              IF pl.outcome # "planned"
              THEN /\ status' = "aborted"
                   /\ UNCHANGED <<pool, prevPool, engine, xfer>>
              ELSE \E grow \in GrowChoices(pool), e \in EngineOutcomes :
                   LET w == halide_hexagon_dma_wrapper(pool, engine, pl, grow,
                                                       e.fail, e.releaseRc)
                   IN /\ pool' = w.pool
                      /\ prevPool' = pool
                      /\ engine' = w.engine
                      /\ xfer' = Transfer(w.ret, c.iface, w, e.releaseRc)
                      /\ UNCHANGED status
    /\ UNCHANGED <<hist, thr, heap, leases, dev, req, plan>>

\* wrapping, preparing and copying, one call after the other
Next ==
    \/ halide_hexagon_dma_device_wrap_native
    \/ halide_hexagon_dma_prepare_for_copy_to_host
    \/ halide_hexagon_dma_prepare_for_copy_to_device
    \/ halide_hexagon_dma_buffer_copy
Spec == Init /\ [][Next]_vars

(* ------------- halide_hexagon_dma_wrapper on any request -------------- *)
\* the device-side buffer of a request, with every field the format
\* assertions read
WrapSrcBuffers ==
    {[dimensions |-> n,
      dim |-> [i \in 0..2 |-> IF i = 0 THEN Dim(0, 64, s0)
                              ELSE IF i = 1 THEN Dim(0, 4, 64)
                              ELSE d2]] :
       n \in 2..4, s0 \in 1..2,
       d2 \in {Dim(0, 2, 1), Dim(1, 2, 1), Dim(0, 3, 1), Dim(0, 2, 2)}}

\* the requests: every format and direction, on-chip strides below, at and
\* above the recommended one
WrapRequests ==
    [dev : {d \in PlanHandles : ~d.is_ubwc /\ d.offset_wry = 0 /\ d.frame_height = 4},
     src : WrapSrcBuffers,
     dst : {b \in PlanDstBuffers :
              /\ b.dimensions = 2 /\ b.dim[1].min = 0 /\ b.dim[2].min = 0
              /\ b.dim[1].stride \in {32, 64, 100, 128}},
     rec : {TheRecommendation}]

\* the pool before the call: empty, with one pair whose first unit is leased,
\* with one pair and both units free, or with one pair and both units leased
WrapPools ==
    LET leased == desc_pool_get(InitPool, TRUE, TRUE, TRUE)
    IN {InitPool, leased.pool, desc_pool_put(leased.pool, leased.ret),
        desc_pool_get(leased.pool, TRUE, TRUE, TRUE).pool}

WrapInit ==
    /\ pool \in WrapPools
    /\ prevPool = pool
    /\ hist = <<>>
    /\ status = "running"
    /\ thr = [t \in Threads |-> IdleThread]
    /\ heap = InitHeap
    /\ leases = NoLeases
    /\ dev = NoDevice
    /\ engine \in 0..1
    /\ xfer = NoTransfer
    /\ req \in WrapRequests
    /\ plan = NoPlan

\* halide_hexagon_dma_wrapper(src, dst) with dev = req.dev, once; hist keeps
\* which engine call was made to fail
WrapperCall ==
    /\ status = "running"
    /\ plan = NoPlan
    /\ plan' = PlanTransfer(req)
    /\ \E grow \in GrowChoices(pool), e \in EngineOutcomes :
         LET w == halide_hexagon_dma_wrapper(pool, engine, plan', grow,
                                             e.fail, e.releaseRc)
         IN /\ pool' = w.pool
            /\ prevPool' = pool
            /\ engine' = w.engine
            /\ xfer' = Transfer(w.ret, "none", w, e.releaseRc)
            /\ status' = IF w.ret = "aborted" THEN "aborted" ELSE "running"
            /\ hist' = IF w.ret = "aborted" THEN hist
                       ELSE <<[op |-> "transfer", desc |-> w.desc,
                               lockCalls |-> w.lockCalls, fail |-> e.fail]>>
    /\ UNCHANGED <<thr, heap, leases, dev, req>>

SpecWrap == WrapInit /\ [][WrapperCall]_vars

(* ------------------- one call of the device interface ----------------- *)
\* the arguments of a halide_hexagon_dma_buffer_copy or a
\* halide_hexagon_dma_device_slice (which reads none of them)
CallRequests ==
    [op : {"copy"}, src : CopyBuffers, iface : {"null", "dma", "other"},
     dst : CopyBuffers, foreignOk : BOOLEAN] \cup
    [op : {"slice"}, src : CopyBuffers, iface : {"null"},
     dst : CopyBuffers, foreignOk : {TRUE}]

\* the frame's handle before the call: none, or prepared for a luma or chroma
\* plane in either direction
CallHandles ==
    {NoDevice} \cup
    {d \in PlanHandles : /\ d.fmt \in CopyFormats /\ ~d.is_ubwc
                         /\ d.offset_wry = 0 /\ d.frame_height = 4}

CallInit ==
    /\ pool \in WrapPools
    /\ prevPool = pool
    /\ hist = <<>>
    /\ status = "running"
    /\ thr = [t \in Threads |-> IdleThread]
    /\ heap = InitHeap
    /\ leases = NoLeases
    /\ dev \in CallHandles
    /\ engine \in 0..1
    /\ xfer = NoTransfer
    /\ req \in CallRequests
    /\ plan = NoPlan

\* halide_hexagon_dma_buffer_copy(req.src, req.iface, req.dst), once
CopyCall ==
    /\ status = "running"
    /\ xfer = NoTransfer
    /\ req.op = "copy"
    /\ LET c == CopyRoute(dev # NoDevice, req.src, req.iface, req.dst, req.foreignOk)
           ended(ret, st) ==
               /\ xfer' = Transfer(ret, req.iface, NoCalls, "none")
               /\ status' = st
               /\ UNCHANGED <<pool, engine>>
       IN IF c.route = "aborted" THEN ended("aborted", "aborted")
          ELSE IF c.route = "foreign_error" THEN ended("foreign_error", "running")
          ELSE IF c.route = "undefined" THEN ended("undefined", "undefined")
          ELSE \E pl \in CopyPlans :
               IF pl.outcome # "planned" THEN ended("aborted", "aborted")
               ELSE \E grow \in GrowChoices(pool), e \in EngineOutcomes :
                    LET w == halide_hexagon_dma_wrapper(pool, engine, pl, grow,
                                                        e.fail, e.releaseRc)
                    IN /\ pool' = w.pool
                       /\ engine' = w.engine
                       /\ xfer' = Transfer(w.ret, req.iface, w, e.releaseRc)
                       /\ UNCHANGED status
    /\ prevPool' = pool
    /\ UNCHANGED <<hist, thr, heap, leases, dev, req, plan>>

\* halide_hexagon_dma_device_slice: halide_assert(user_context, 0) stops it
\* before its return statement
halide_hexagon_dma_device_slice ==
    /\ status = "running"
    /\ xfer = NoTransfer
    /\ req.op = "slice"
    /\ xfer' = Transfer("aborted", "none", NoCalls, "none")
    /\ status' = "aborted"
    /\ prevPool' = pool
    /\ UNCHANGED <<pool, engine, hist, thr, heap, leases, dev, req, plan>>

NextCall == CopyCall \/ halide_hexagon_dma_device_slice
SpecCall == CallInit /\ [][NextCall]_vars

(* ------------------ the life of a frame and its crops ------------------ *)
\* dim[0].min and dim[1].min a caller gives to the dst buffer of a crop
CropMins == {<<0, 0>>, <<2, 1>>}

\* a call on the buffers ends as r
HeapCall(r) ==
    /\ status = "running"
    /\ heap' = r.heap
    /\ status' = r.status
    /\ UNCHANGED <<pool, prevPool, hist, thr, leases, dev, engine, xfer, req, plan>>

\* halide_hexagon_dma_device_malloc on the parent buffer
halide_hexagon_dma_device_malloc ==
    \E mOk \in BOOLEAN, hOk \in BOOLEAN : HeapCall(DeviceMalloc(heap, 0, mOk, hOk))

\* halide_hexagon_dma_device_wrap_native on the parent buffer with a frame
\* the caller allocated
WrapFrame ==
    /\ heap.nFrames < MaxFrames
    /\ \E hOk \in BOOLEAN :
         HeapCall(WrapNative(NewFrame(heap), "wrap_native", 0, heap.nFrames + 1, hOk))

\* halide_hexagon_dma_device_crop from any buffer into a crop buffer that has
\* no device yet
halide_hexagon_dma_device_crop ==
    \E src \in Bufs, dst \in Crops, mn \in CropMins, hOk \in BOOLEAN :
        /\ src # dst
        /\ heap.device[dst] = 0
        /\ HeapCall(DeviceCrop(heap, src, dst, mn, hOk))

\* halide_hexagon_dma_device_release_crop on a crop buffer
halide_hexagon_dma_device_release_crop ==
    \E b \in Crops : HeapCall(ReleaseCrop(heap, b))

\* halide_hexagon_dma_device_free on the parent buffer
halide_hexagon_dma_device_free == HeapCall(DeviceFree(heap, 0))

\* halide_hexagon_dma_device_detach_native on the parent buffer
halide_hexagon_dma_device_detach_native ==
    HeapCall(DetachNative(heap, "detach_native", 0))

NextCrop ==
    \/ halide_hexagon_dma_device_malloc
    \/ WrapFrame
    \/ halide_hexagon_dma_device_crop
    \/ halide_hexagon_dma_device_release_crop
    \/ halide_hexagon_dma_device_free
    \/ halide_hexagon_dma_device_detach_native
SpecCrop == Init /\ [][NextCrop]_vars

(* ------------- transfer parameters of a frame and its crops ----------- *)
\* halide_hexagon_dma_prepare_for_copy_to_host / _to_device on the parent
\* buffer, for a luma plane
PrepareParent ==
    /\ status = "running"
    /\ \E dma_engine \in {NULL, 1}, is_write \in BOOLEAN :
         IF heap.device[0] = 0 \/ dma_engine = NULL
         THEN /\ status' = "aborted"
              /\ UNCHANGED heap
         ELSE /\ heap' = [heap EXCEPT
                   !.handle[heap.device[0]] =
                       dma_prepare_for_copy(@, dma_engine, FALSE, "NV12_Y", is_write),
                   !.last = [op |-> "prepare", buf |-> 0, src |-> 0, ret |-> "success"]]
              /\ UNCHANGED status
    /\ UNCHANGED <<pool, prevPool, hist, thr, leases, dev, engine, xfer, req, plan>>

\* the on-chip buffers of these transfers
CropPlanDst ==
    {b \in PlanDstBuffers : /\ b.dimensions = 2 /\ b.dim[1].stride = 64
                            /\ b.dim[1].min \in {0, 2200} /\ b.dim[2].min = 0}

\* the parameters halide_hexagon_dma_wrapper computes for a buffer that has a
\* handle
PlanOnBuffer ==
    /\ status = "running"
    /\ plan = NoPlan
    /\ \E b \in Bufs, dst \in CropPlanDst :
         /\ heap.device[b] # 0
         /\ req' = [dev |-> heap.handle[heap.device[b]],
                    src |-> CHOOSE f \in FrameBuffers :
                               f.dimensions = 2 /\ f.dim[0].stride = 1,
                    dst |-> dst, rec |-> TheRecommendation]
         /\ plan' = PlanTransfer(req')
    /\ UNCHANGED <<pool, prevPool, hist, status, thr, leases, dev, engine, xfer, heap>>

\* the life of a frame and its crops, ending with one parameter computation
NextCropPlan ==
    \/ plan = NoPlan /\ NextCrop
    \/ plan = NoPlan /\ PrepareParent
    \/ PlanOnBuffer
SpecCropPlan == Init /\ [][NextCropPlan]_vars

\* callers of desc_pool_get and desc_pool_put on concurrent threads
(* ------------------- preparing a frame and its crops ------------------ *)
\* halide_hexagon_dma_prepare_for_copy_to_host / _to_device on any buffer;
\* a buffer without a handle makes dma_prepare_for_copy write through NULL.
\* frame_height is followed up to twice MaxFrameHeight.
PrepareBuffer ==
    /\ status = "running"
    /\ \E b \in Bufs, dma_engine \in {NULL, 1}, fmt \in CopyFormats, is_write \in BOOLEAN :
         IF dma_engine = NULL
         THEN /\ status' = "aborted"
              /\ UNCHANGED heap
         ELSE IF heap.device[b] = 0
         THEN /\ status' = "crashed"
              /\ UNCHANGED heap
         ELSE /\ fmt \in ChromaFormats =>
                    heap.handle[heap.device[b]].frame_height <= MaxFrameHeight
              /\ heap' = [heap EXCEPT
                   !.handle[heap.device[b]] =
                       dma_prepare_for_copy(@, dma_engine, FALSE, fmt, is_write),
                   !.last = [op |-> "prepare", buf |-> b, src |-> b, ret |-> "success"]]
              /\ UNCHANGED status
    /\ UNCHANGED <<pool, prevPool, hist, thr, leases, dev, engine, xfer, req, plan>>

\* the life of a frame and its crops with prepares in between
NextPrepare == NextCrop \/ PrepareBuffer
SpecPrepare == Init /\ [][NextPrepare]_vars

(* ------------- transfers on one engine, teardown on another ----------- *)
\* halide_hexagon_dma_wrapper on the engine of caller t up to its
\* desc_pool_get: the transfer is in flight with the descriptor it was given
TransferLease(t) ==
    /\ status = "running"
    /\ thr[t].pc = "idle"
    /\ \E mallocOk1 \in BOOLEAN, lockOk \in BOOLEAN, mallocOk2 \in BOOLEAN :
       \E seen \in FreedReads(pool) :
         LET r == desc_pool_get(seen, mallocOk1, lockOk, mallocOk2) IN
         \E out \in Outcomes(pool, r.pool) :
           /\ pool' = out.pool
           /\ status' = out.status
           /\ prevPool' = pool
           /\ hist' = Push(hist, [op |-> "get", desc |-> r.ret,
                                  lockCalls |-> r.lockCalls])
           /\ thr' = [thr EXCEPT ![t] =
                        IF r.ret = NULL THEN IdleThread
                        ELSE [IdleThread EXCEPT !.pc = "done", !.ret = r.ret]]
    /\ UNCHANGED <<frameVars, leases>>

\* the transfer of caller t completes: desc_pool_put(desc_addr)
TransferReturn(t) ==
    /\ status = "running"
    /\ thr[t].pc = "done"
    /\ \E seen \in FreedReads(pool) :
       \E out \in Outcomes(pool, desc_pool_put(seen, thr[t].ret)) :
         /\ pool' = out.pool
         /\ status' = out.status
         /\ prevPool' = pool
         /\ hist' = Push(hist, [op |-> "put", desc |-> thr[t].ret, lockCalls |-> 0])
    /\ thr' = [thr EXCEPT ![t] = IdleThread]
    /\ UNCHANGED <<frameVars, leases>>

\* transfers in flight while engines are deallocated
NextEngines ==
    \/ \E t \in Threads : TransferLease(t)
    \/ \E t \in Threads : TransferReturn(t)
    \/ halide_hexagon_dma_deallocate_engine
SpecEngines == Init /\ [][NextEngines]_vars

NextConc ==
    \E t \in Threads :
        GetStart(t) \/ GetLoop(t) \/ GetMark(t) \/ GetGrow(t) \/ GetLink(t) \/ PutBack(t)
SpecConc == Init /\ [][NextConc]_vars

TypeOK == status \in {"running", "aborted", "crashed", "undefined"}

(* ------------------------------ claims -------------------------------- *)
Last == hist[Len(hist)]

\* the last three operations were get returning a unit U, put(U), get
ReuseCase ==
    /\ Len(hist) = 3
    /\ hist[1].op = "get" /\ hist[1].desc # NULL
    /\ hist[2].op = "put" /\ hist[2].desc = hist[1].desc
    /\ hist[3].op = "get"

\* C3: when desc_pool_get returned U, desc_pool_put(U) followed and then
\* desc_pool_get again, the second get returns U and calls HAP_cache_lock
\* not at all.
C3_ReusePrecedesGrowth ==
    ReuseCase => hist[3].desc = hist[1].desc /\ hist[3].lockCalls = 0

\* the reuse happens behind a unit that stays leased, in a pool that grew twice
C3_Witness ==
    /\ ReuseCase
    /\ hist[3].desc = LockBase(2)
    /\ LockBase(1) \in InUse(pool)

\* C4: desc_pool_free on a pool built by leases and releases calls
\* HAP_cache_unlock once with the base of every locked region, never with
\* another pointer, and frees every node of the list once.
C4_UnlockOncePerAllocation ==
    (Len(hist) > 0 /\ Last.op = "free" /\ Dangling(prevPool) = {}) =>
        /\ \A a \in Addr : pool.unlocks[a] = IF a \in prevPool.locked THEN 1 ELSE 0
        /\ \A n \in PoolNodes(prevPool) : pool.frees[n] = 1

\* C5: teardown leaves the pool as it was initially (empty, nothing locked),
\* no region is unlocked twice and no node freed twice over any sequence of
\* leases, releases and teardowns, and no operation visits a freed node.
C5_TeardownRestoresEmptyPool ==
    /\ (Len(hist) > 0 /\ Last.op = "free") =>
          pool.dma_desc_pool = NULL /\ pool.locked = {}
    /\ \A a \in Addr : pool.unlocks[a] <= 1
    /\ \A n \in NodeIds : pool.frees[n] <= 1
    /\ ~pool.uaf

\* the descriptors callers currently hold: returned by desc_pool_get, not yet put
Holding(t) == thr[t].pc = "done" /\ thr[t].ret # NULL

\* C6: callers running desc_pool_get concurrently never hold the same
\* descriptor, and the unit a caller was given is in the list.
C6_NoDoubleLease ==
    /\ \A t1, t2 \in Threads :
          (t1 # t2 /\ Holding(t1) /\ Holding(t2)) => thr[t1].ret # thr[t2].ret
    /\ \A t \in Threads : Holding(t) => thr[t].ret \in Descriptors(pool)

\* C7: desc_pool_put of a pointer that no used unit holds (a unit already
\* free, or a pointer not in the list) leaves the pool as it was; so a
\* second put(U) right after put(U) changes nothing.
C7_PutIdempotent ==
    (Len(hist) > 0 /\ Last.op = "put") =>
        /\ Last.desc \notin InUse(prevPool) => pool = prevPool
        /\ (Len(hist) > 1 /\ hist[Len(hist) - 1] = Last) => pool = prevPool

\* put(U) twice in a row on a unit of the pool while another unit is leased
C7_Witness ==
    /\ Len(hist) = 3
    /\ hist[2].op = "put" /\ hist[3] = hist[2]
    /\ hist[3].desc \in Descriptors(pool)
    /\ InUse(pool) # {}
    /\ pool = prevPool

\* the last halide_hexagon_dma_buffer_copy reached halide_hexagon_dma_wrapper
\* and desc_pool_get gave it a descriptor
Leased == xfer.ret # "none" /\ xfer.desc # NULL

\* C1: on every return of halide_hexagon_dma_wrapper after a descriptor was
\* leased (acquire, setup, move or wait failed, or all succeeded) the
\* descriptor is free in the pool again and no engine instance is kept.
C1_ReleasedOnEveryExit ==
    Leased => /\ xfer.desc \notin InUse(pool)
              /\ engine = xfer.engineBefore

\* every call of the wrapper was made: lease, acquire, setup, move, wait,
\* put, release
FullSuccess ==
    /\ Leased
    /\ xfer.calls = <<"desc_pool_get">> \o EngineCalls \o
                    <<"desc_pool_put", "halide_hexagon_free_to_dma_pool">>

\* C2: when lease, acquire, setup, move and wait all succeed, the descriptor
\* is put back and the engine instance handed to the engine pool: the
\* descriptors in use are those in use before, the list is the one before
\* when the lease did not grow it, the engine count is the one before when
\* the release succeeded, and the return value is success when the release
\* succeeded and the release's error code otherwise.
C2_SuccessReleasesBoth ==
    FullSuccess =>
        /\ InUse(pool) = InUse(prevPool)
        /\ xfer.lockCalls = 0 => PoolList(pool) = PoolList(prevPool)
        /\ xfer.releaseRc = "success" => engine = xfer.engineBefore
        /\ xfer.ret = IF xfer.releaseRc = "success" THEN "success" ELSE xfer.releaseRc

\* a successful transfer on a reused unit, behind a descriptor that an earlier
\* failed transfer left in use, with the engine release failing
C2_Witness ==
    /\ FullSuccess
    /\ xfer.lockCalls = 0
    /\ InUse(pool) # {}
    /\ xfer.releaseRc = "generic_error"
    /\ xfer.ret = "generic_error"

\* the request passed the format assertions and its parameters were computed
PlanComputed == plan # NoPlan /\ plan.outcome # "format_assert"

\* C8: the ROI stride is dst->dim[1].stride whenever that exceeds the
\* recommended stride, and the transfer is stopped by the stride assertion
\* whenever dst->dim[1].stride is not a multiple of the recommended stride
\* (100 against 64 is stopped, 128 against 64 goes on with stride 128).
C8_StrideFloor ==
    PlanComputed =>
        /\ req.dst.dim[1].stride % req.rec.stride # 0 => plan.outcome = "stride_assert"
        /\ (plan.outcome = "planned" /\ req.dst.dim[1].stride > req.rec.stride) =>
              plan.parm.u16RoiStride = req.dst.dim[1].stride

\* C9: for a chroma format with recommended height H the ROI height set up is
\* 2*H, and the ROI Y origin is 2*Y for a write and (Y - F)*2 for a read, Y
\* being the origin of the direction and F the handle's frame_height, all
\* modulo 2^16.
C9_ChromaRoi ==
    (plan # NoPlan /\ plan.outcome = "planned" /\ req.dev.fmt \in ChromaFormats) =>
        LET Y == IF req.dev.is_write THEN req.dev.offset_wry % 65536
                 ELSE (req.dev.offset_rdy + req.dst.dim[1].min) % 65536
            F == req.dev.frame_height
        IN /\ plan.parm.u16RoiH = (2 * req.rec.u16H) % 65536
           /\ plan.parm.u16RoiY = IF req.dev.is_write THEN (2 * Y) % 65536
                                  ELSE ((Y - F) * 2) % 65536

\* a P010_UV read at the top of a frame of height 4 with recommended height
\* 40000: both values wrap
C9_Witness ==
    /\ plan # NoPlan /\ plan.outcome = "planned"
    /\ req.dev.fmt = "P010_UV" /\ ~req.dev.is_write
    /\ req.dev.frame_height = 4 /\ req.rec.u16H = 40000
    /\ plan.parm.u16RoiY = 65528
    /\ plan.parm.u16RoiH = 14464

\* C10: a copy on a prepared handle that reached nDmaWrapper_DmaTransferSetup
\* set the transfer type by its dst_device_interface: L2ToDdr for the DMA
\* interface, DdrToL2 for a null interface.
C10_TypeFollowsInterface ==
    (xfer.ret # "none" /\ xfer.eTransferType # "none" /\ xfer.prepared) =>
        /\ xfer.iface = "dma" => xfer.eTransferType = "eDmaWrapper_L2ToDdr"
        /\ xfer.iface = "null" => xfer.eTransferType = "eDmaWrapper_DdrToL2"

\* the dimension and layout conditions of a format on the device buffer
FormatFits(fmt, src) ==
    IF fmt = "RawData" THEN src.dimensions <= 3
    ELSE IF fmt \in {"NV12_Y", "P010_Y", "TP10_Y", "NV124R_Y"} THEN src.dimensions = 2
    ELSE IF fmt \in {"NV12_UV", "P010_UV", "TP10_UV", "NV124R_UV"}
    THEN /\ src.dimensions = 3
         /\ src.dim[0].stride = 2 /\ src.dim[2].stride = 1
         /\ src.dim[2].min = 0 /\ src.dim[2].extent = 2
    ELSE TRUE

\* C11: a request whose device buffer does not fit the handle's format (raw
\* with more than 3 dimensions, luma without exactly 2, chroma without
\* exactly 3 dimensions of the interleaved layout) is stopped by a failed
\* assertion before desc_pool_get: no call is made and the pool is as before.
C11_FormatValidation ==
    (plan # NoPlan /\ ~FormatFits(req.dev.fmt, req.src)) =>
        /\ plan.outcome = "format_assert"
        /\ status = "aborted"
        /\ xfer.calls = <<>>
        /\ pool = prevPool

\* a chroma request with 3 dimensions and dim[0].stride 2 whose dim[2].extent
\* is 3, on a pool with a free unit to lease
C11_Witness ==
    /\ plan # NoPlan /\ plan.outcome = "format_assert"
    /\ req.dev.fmt = "TP10_UV"
    /\ req.src.dimensions = 3 /\ req.src.dim[0].stride = 2
    /\ req.src.dim[2].extent = 3
    /\ status = "aborted"
    /\ Descriptors(pool) # {} /\ InUse(pool) = {}

\* a copy whose source is on the device (a dirty buffer of the DMA interface)
\* and whose destination is a device buffer of the DMA interface
DeviceToDevice ==
    /\ req.op = "copy" /\ req.iface = "dma"
    /\ req.src.kind = "frame" /\ req.src.dirty /\ dev # NoDevice
    /\ req.dst.kind = "frame"

\* C12: halide_hexagon_dma_device_slice and a device-to-device copy return a
\* non-success code to the caller (the program goes on) and leave the
\* descriptor pool as it was.
C12_UnsupportedReturnsError ==
    (xfer # NoTransfer /\ (req.op = "slice" \/ DeviceToDevice)) =>
        /\ status = "running"
        /\ xfer.ret \notin {"success", "aborted", "undefined"}
        /\ pool = prevPool

\* C13: over wrap/device_malloc, crop, release_crop, device_free and detach
\* in any order, no frame is freed twice, no handle struct is freed twice,
\* and no crop buffer holds a handle whose frame memory has been freed.
C13_CropNeverOutlivesFrame ==
    /\ \A m \in FrameIds : heap.mfrees[m] <= 1
    /\ \A k \in HandleIds : heap.hfrees[k] <= 1
    /\ \A b \in Crops :
          heap.device[b] # 0 => heap.handle[heap.device[b]].buffer \in heap.mlive

\* positions in the list of p of the units marked free
FreeAt(p) == {i \in 1..Len(PoolList(p)) : ~p.node[PoolList(p)[i]].used}
First(S) == CHOOSE i \in S : \A j \in S : i <= j

\* what a desc_pool_get does when the list has a free unit: it returns the
\* first one in list order, marks it used, and allocates and locks nothing
ReusesFirstFree ==
    LET n == PoolList(prevPool)[First(FreeAt(prevPool))] IN
    /\ Last.desc = prevPool.node[n].descriptor
    /\ Last.lockCalls = 0
    /\ pool = [prevPool EXCEPT !.node[n].used = TRUE]

\* a desc_pool_get that grew the list put the new units behind the old ones
\* and returned the first of them
AppendsAtEnd ==
    LET old == PoolList(prevPool)
        new == PoolList(pool)
    IN Last.desc # NULL =>
         /\ Len(new) \in {Len(old) + 1, Len(old) + 2}
         /\ SubSeq(new, 1, Len(old)) = old
         /\ Last.desc = pool.node[new[Len(old) + 1]].descriptor
         /\ pool.node[new[Len(old) + 1]].used

\* C14 as stated: desc_pool_get returns the first free unit in list order and
\* marks it used; it calls HAP_cache_lock if and only if no unit of the list
\* is free; new units go to the end of the list.
C14_FirstFitAsStated ==
    (Len(hist) > 0 /\ Last.op = "get") =>
        IF FreeAt(prevPool) # {} THEN ReusesFirstFree
        ELSE Last.lockCalls = 1 /\ AppendsAtEnd

\* C14, amended: as above, but with no free unit HAP_cache_lock is called if
\* and only if the malloc of the new list node succeeded.
C14_FirstFit ==
    (Len(hist) > 0 /\ Last.op = "get") =>
        IF FreeAt(prevPool) # {} THEN ReusesFirstFree
        ELSE /\ Last.lockCalls = (IF pool.nMalloc > prevPool.nMalloc THEN 1 ELSE 0)
             /\ AppendsAtEnd

\* a get that passes a used unit and takes the free one behind it, with
\* another free unit further down the list
C14_Witness ==
    /\ Len(hist) > 0 /\ Last.op = "get"
    /\ LockBase(1) \in InUse(prevPool)
    /\ Last.desc = LockBase(1) + descriptor_size
    /\ LockBase(2) \in Descriptors(pool) \ InUse(pool)

\* the list of p is made of consecutive pairs, each pair on one locked region
\* of its own
Paired(p) ==
    LET L == PoolList(p) IN
    /\ Len(L) % 2 = 0
    /\ \A i \in 1..Len(L) :
          i % 2 = 1 =>
             /\ p.node[L[i]].descriptor \in {LockBase(k) : k \in 1..MaxLocks}
             /\ p.node[L[i + 1]].descriptor = p.node[L[i]].descriptor + descriptor_size
    /\ \A i, j \in 1..Len(L) :
          i # j => p.node[L[i]].descriptor # p.node[L[j]].descriptor

\* C15: a desc_pool_get that grows the pool adds exactly two units on one
\* locked region, the first used and the second free, so that the list always
\* consists of consecutive pairs, each on a region of its own.
C15_GrowthInPairs ==
    /\ Paired(pool)
    /\ (Len(hist) > 0 /\ Last.op = "get" /\ Last.lockCalls = 1 /\ Last.desc # NULL) =>
          LET old == PoolList(prevPool)
              new == PoolList(pool)
          IN /\ Len(new) = Len(old) + 2
             /\ pool.node[new[Len(old) + 1]].used
             /\ ~pool.node[new[Len(old) + 2]].used

\* the calls of a transfer in their order
AllCalls ==
    <<"desc_pool_get">> \o EngineCalls \o
    <<"desc_pool_put", "halide_hexagon_free_to_dma_pool">>

\* how many of them are due when the lease gave a descriptor or not, the
\* engine pool has an instance or not, and the engine call named by fail
\* does not succeed
CallsDue(leased, hasEngine, fail) ==
    IF ~leased THEN 1
    ELSE IF fail = "acquire" \/ ~hasEngine THEN 2
    ELSE IF fail = "setup" THEN 3
    ELSE IF fail = "move" THEN 4
    ELSE IF fail = "wait" THEN 5
    ELSE 7

\* C16: the calls of one transfer are lease, acquire, setup, move, wait, put,
\* release in this order, up to and including the first one that fails and
\* none after it; a transfer stopped by a failed acquire, setup, move or wait
\* returns halide_error_code_device_buffer_copy_failed.
C16_CallOrder ==
    (Len(hist) > 0 /\ Last.op = "transfer") =>
        LET due == CallsDue(xfer.desc # NULL, xfer.engineBefore < MaxEngines, Last.fail)
        IN /\ xfer.calls = SubSeq(AllCalls, 1, due)
           /\ due < 7 => xfer.ret = "device_buffer_copy_failed"

\* a transfer on a pool that had to grow, stopped by a failed nDmaWrapper_Move
C16_Witness ==
    /\ Len(hist) > 0 /\ Last.op = "transfer"
    /\ Last.fail = "move" /\ Last.lockCalls = 1
    /\ Len(xfer.calls) = 4
    /\ xfer.ret = "device_buffer_copy_failed"

\* the transfer's desc_pool_get called HAP_cache_lock and got no descriptor
LockFailed ==
    Len(hist) > 0 /\ Last.op = "transfer" /\ Last.lockCalls = 1 /\ Last.desc = NULL

\* C17: when HAP_cache_lock fails in a growing desc_pool_get, the node just
\* allocated is freed, the list and every used flag are as before the call,
\* and the transfer returns halide_error_code_device_buffer_copy_failed
\* having made no engine call.
C17_LockFailure ==
    LockFailed =>
        /\ pool.nMalloc = prevPool.nMalloc + 1
        /\ pool.frees[pool.nMalloc] = 1
        /\ pool.live = prevPool.live
        /\ pool.dma_desc_pool = prevPool.dma_desc_pool
        /\ PoolList(pool) = PoolList(prevPool)
        /\ \A n \in PoolNodes(pool) : pool.node[n] = prevPool.node[n]
        /\ pool.locked = prevPool.locked
        /\ xfer.ret = "device_buffer_copy_failed"
        /\ xfer.calls = <<"desc_pool_get">>
        /\ engine = xfer.engineBefore

\* the lock fails while both units of the pool are leased
C17_Witness ==
    /\ LockFailed
    /\ Cardinality(InUse(prevPool)) = 2
    /\ InUse(pool) = InUse(prevPool)
    /\ xfer.ret = "device_buffer_copy_failed"

\* the on-chip stride is not a multiple of the stride chosen for the transfer
\* (the larger of it and the recommended one)
StrideMisfit(dst, rec) ==
    LET chosen == IF dst.dim[1].stride > rec.stride THEN dst.dim[1].stride
                  ELSE rec.stride
    IN dst.dim[1].stride % chosen # 0

\* C18: a transfer whose device buffer does not fit the format, or whose
\* on-chip stride fails the multiple check, is stopped by the failed
\* assertion with no call made: no lease, no engine call, and the descriptor
\* pool and the engine count as they were.
C18_ValidationBeforeCalls ==
    (plan # NoPlan /\ (~FormatFits(req.dev.fmt, req.src) \/ StrideMisfit(req.dst, req.rec))) =>
        /\ status = "aborted"
        /\ xfer.ret = "aborted"
        /\ xfer.calls = <<>> /\ xfer.desc = NULL
        /\ pool = prevPool
        /\ engine = xfer.engineBefore

\* the stride check stops a luma transfer while the pool has a free unit and
\* an engine instance is out
C18_Witness ==
    /\ plan # NoPlan /\ plan.outcome = "stride_assert"
    /\ req.dev.fmt = "NV12_Y" /\ req.dst.dim[1].stride = 32
    /\ status = "aborted"
    /\ Descriptors(pool) \ InUse(pool) # {} /\ InUse(pool) # {}
    /\ engine = 1

\* the Y origin of the request's direction, before any format adjustment
DirectionY ==
    IF req.dev.is_write THEN req.dev.offset_wry
    ELSE req.dev.offset_rdy + req.dst.dim[1].min

\* C19: for a raw transfer whose on-chip buffer has 3 dimensions the ROI Y
\* origin set up is the Y origin of the transfer's direction (offset_wry for
\* a write, offset_rdy + dst.dim[1].min for a read) plus
\* dim[2].min * src.dim[1].stride, modulo 2^16.
C19_RawPlanarRoiY ==
    (plan # NoPlan /\ plan.outcome = "planned"
       /\ req.dev.fmt = "RawData" /\ req.dst.dimensions = 3) =>
        plan.parm.u16RoiY =
            (DirectionY + req.dst.dim[2].min * req.src.dim[1].stride) % 65536

\* C20: for a transfer that is neither planar raw nor chroma the ROI origin
\* set up is (offset_wrx * dst.dim[0].stride, offset_wry) for a write handle
\* and ((offset_rdx + dst.dim[0].min) * dst.dim[0].stride,
\* offset_rdy + dst.dim[1].min) for a read handle, modulo 2^16; and the write
\* offsets device_crop gives a crop are those of the buffer cropped from plus
\* the difference of the two buffers' mins.
C20_RoiOrigin ==
    /\ (plan # NoPlan /\ plan.outcome = "planned"
          /\ req.dev.fmt \notin {"NV12_UV", "P010_UV", "TP10_UV", "NV124R_UV"}
          /\ ~(req.dev.fmt = "RawData" /\ req.dst.dimensions = 3)) =>
         IF req.dev.is_write
         THEN /\ plan.parm.u16RoiX = (req.dev.offset_wrx * req.dst.dim[0].stride) % 65536
              /\ plan.parm.u16RoiY = req.dev.offset_wry % 65536
         ELSE /\ plan.parm.u16RoiX =
                   ((req.dev.offset_rdx + req.dst.dim[0].min) * req.dst.dim[0].stride) % 65536
              /\ plan.parm.u16RoiY = (req.dev.offset_rdy + req.dst.dim[1].min) % 65536
    /\ (heap.last.op = "device_crop" /\ heap.last.ret = "success") =>
         LET c == heap.handle[heap.device[heap.last.buf]]
             p == heap.handle[heap.device[heap.last.src]]
         IN /\ c.offset_wrx = p.offset_wrx + heap.min[heap.last.buf][1]
                                           - heap.min[heap.last.src][1]
            /\ c.offset_wry = p.offset_wry + heap.min[heap.last.buf][2]
                                           - heap.min[heap.last.src][2]

\* a write planned through the handle of a crop at (2, 1) of a parent prepared
\* for writing
C20_Witness ==
    /\ plan # NoPlan /\ plan.outcome = "planned"
    /\ heap.last.op = "device_crop" /\ heap.last.ret = "success"
    /\ heap.min[heap.last.buf] = <<2, 1>> /\ heap.last.src = 0
    /\ req.dev = heap.handle[heap.device[heap.last.buf]]
    /\ req.dev.is_write /\ req.dev.fmt = "NV12_Y"
    /\ plan.parm.u16RoiX = 4 /\ plan.parm.u16RoiY = 1

\* the list of q begins with the list of p, and the units of p hold the
\* descriptors they held
KeepsUnits(p, q) ==
    /\ Len(PoolList(q)) >= Len(PoolList(p))
    /\ SubSeq(PoolList(q), 1, Len(PoolList(p))) = PoolList(p)
    /\ \A n \in PoolNodes(p) : q.node[n].descriptor = p.node[n].descriptor

\* C21: over leases and releases without teardown the list never shrinks,
\* the order of its nodes and their descriptor pointers never change; a lease
\* that finds a free unit changes that unit's used flag from false to true
\* and nothing else; a release changes nothing but the used flags of the
\* units whose descriptor is the pointer given.
C21_OnlyUsedChanges ==
    Len(hist) > 0 =>
        /\ KeepsUnits(prevPool, pool)
        /\ (Last.op = "get" /\ FreeAt(prevPool) # {}) =>
              LET n == PoolList(prevPool)[First(FreeAt(prevPool))] IN
              /\ ~prevPool.node[n].used
              /\ pool = [prevPool EXCEPT !.node[n].used = TRUE]
        /\ Last.op = "put" =>
              /\ pool = [prevPool EXCEPT !.node =
                    [n \in NodeIds |-> [prevPool.node[n] EXCEPT !.used = pool.node[n].used]]]
              /\ \A n \in NodeIds :
                    pool.node[n].used # prevPool.node[n].used =>
                       /\ n \in PoolNodes(prevPool)
                       /\ prevPool.node[n].descriptor = Last.desc
                       /\ ~pool.node[n].used

\* a lease that takes a free unit in the middle of a list of four, after a
\* release
C21_Witness ==
    /\ Len(hist) > 1 /\ Last.op = "get" /\ hist[Len(hist) - 1].op = "put"
    /\ Len(PoolList(prevPool)) = 4
    /\ First(FreeAt(prevPool)) \in {2, 3}
    /\ pool # prevPool

\* the last operation was a desc_pool_get that locked a region and could not
\* allocate the node of the region's second unit
SecondNodeFailed ==
    /\ Len(hist) > 0 /\ Last.op = "get" /\ Last.lockCalls = 1
    /\ pool.nLock = prevPool.nLock + 1
    /\ pool.nMalloc = prevPool.nMalloc + 1

\* the list of p holds a unit whose region has no second unit in the list
HasSingle(p) == PoolList(p) # <<>> /\ ~Paired(p)

\* C22: when the malloc of the second unit's node fails, desc_pool_get links
\* the first unit at the end of the list, marked used, and returns its
\* descriptor; on a list with such a single unit a later desc_pool_get takes
\* the first free unit or, when there is none, grows the list at its end,
\* and a later desc_pool_put clears the flags of the units holding the
\* pointer and changes nothing when no used unit holds it.
C22_SingleUnitGrowth ==
    /\ SecondNodeFailed =>
          LET old == PoolList(prevPool)
              new == PoolList(pool)
          IN /\ Last.desc # NULL /\ Last.desc = LockBase(pool.nLock)
             /\ new = Append(old, pool.nMalloc)
             /\ pool.node[pool.nMalloc] =
                   [descriptor |-> Last.desc, used |-> TRUE, next |-> NULL]
    /\ (Len(hist) > 0 /\ HasSingle(prevPool)) =>
          /\ Last.op = "get" =>
                IF FreeAt(prevPool) # {}
                THEN Last.desc = prevPool.node[PoolList(prevPool)[First(FreeAt(prevPool))]].descriptor
                     /\ Last.desc \notin InUse(prevPool)
                     /\ InUse(pool) = InUse(prevPool) \cup {Last.desc}
                     /\ PoolList(pool) = PoolList(prevPool)
                ELSE Last.desc # NULL =>
                        /\ Last.desc \notin Descriptors(prevPool)
                        /\ InUse(pool) = InUse(prevPool) \cup {Last.desc}
                        /\ SubSeq(PoolList(pool), 1, Len(PoolList(prevPool))) = PoolList(prevPool)
          /\ Last.op = "put" =>
                /\ InUse(pool) = InUse(prevPool) \ {Last.desc}
                /\ PoolList(pool) = PoolList(prevPool)
                /\ Last.desc \notin InUse(prevPool) => pool = prevPool

\* a second single unit is appended behind a first one that is still leased
C22_Witness ==
    /\ SecondNodeFailed
    /\ HasSingle(prevPool) /\ Len(PoolList(prevPool)) = 1
    /\ Len(PoolList(pool)) = 2
    /\ InUse(pool) = {LockBase(1), LockBase(2)}

\* C23: under sequential use, over any sequence of leases and releases,
\* desc_pool_get never returns a descriptor that an earlier desc_pool_get
\* returned and no desc_pool_put has taken back; the descriptor pointers of
\* the list are pairwise distinct; a unit is marked used exactly when its
\* descriptor is out.
C23_NoOutstandingReturned ==
    /\ ~leases.twice
    /\ \A i, j \in 1..Len(PoolList(pool)) :
          i # j => pool.node[PoolList(pool)[i]].descriptor #
                   pool.node[PoolList(pool)[j]].descriptor
    /\ \A n \in PoolNodes(pool) :
          pool.node[n].used <=> pool.node[n].descriptor \in leases.out

\* a unit released earlier is leased again while two other descriptors are out
C23_Witness ==
    /\ Len(hist) > 0 /\ Last.op = "get"
    /\ Last.desc \in Descriptors(prevPool)
    /\ Cardinality(InUse(prevPool)) = 2
    /\ Cardinality(leases.out) = 3
    /\ Len(PoolList(pool)) = 4

\* the locked region a descriptor lies in
RegionOf(desc) == desc - (desc % (2 * descriptor_size))

\* C24: halide_hexagon_dma_deallocate_engine never unlocks or frees the
\* descriptor of a transfer in flight on another engine: desc_pool_free runs
\* only when no unit is marked used, and the region of every descriptor a
\* transfer holds stays locked.
C24_TeardownSparesLeased ==
    /\ (Len(hist) > 0 /\ Last.op = "free") => InUse(prevPool) = {}
    /\ \A t \in Threads : Holding(t) => RegionOf(thr[t].ret) \in pool.locked

\* the arguments of the prepare that handle d has stored
PreparedAs(d) == <<d.dma_engine, d.is_ubwc, d.fmt, d.is_write>>

\* a prepare of buffer b right after a prepare of b with the same arguments
PreparedAgain(b) ==
    /\ heap.last.op = "prepare" /\ heap.last.buf = b
    /\ heap'.last.op = "prepare" /\ heap'.last.buf = b
    /\ heap'.device[b] = heap.device[b]
    /\ PreparedAs(heap'.handle[heap.device[b]]) = PreparedAs(heap.handle[heap.device[b]])

\* a prepare of the crop b right after b was cropped from a prepared buffer,
\* with the arguments that buffer was prepared with
CropPrepared(b) ==
    /\ heap.last.op = "device_crop" /\ heap.last.ret = "success" /\ heap.last.buf = b
    /\ heap.handle[heap.device[heap.last.src]].dma_engine # NULL
    /\ heap'.last.op = "prepare" /\ heap'.last.buf = b
    /\ PreparedAs(heap'.handle[heap.device[b]]) =
          PreparedAs(heap.handle[heap.device[heap.last.src]])

\* C25: a second halide_hexagon_dma_prepare_for_copy_to_host / _to_device
\* with the same engine, tiling flag and format leaves the handle, and
\* frame_height in particular, as the first left it, whatever the format;
\* and a crop of a prepared buffer, once prepared itself, has the
\* frame_height of that buffer.
C25_PrepareIdempotent ==
    [][\A b \in Bufs :
          /\ PreparedAgain(b) =>
                heap'.handle[heap.device[b]] = heap.handle[heap.device[b]]
          /\ CropPrepared(b) =>
                heap'.handle[heap.device[b]].frame_height =
                heap'.handle[heap.device[heap.last.src]].frame_height]_vars

C27_PoolSizeFollowsPeak ==
    ~leases.failed =>
        /\ Cardinality(pool.locked) = (leases.peak + 1) \div 2
        /\ pool.nLock = (leases.peak + 1) \div 2
        /\ Len(PoolList(pool)) = 2 * ((leases.peak + 1) \div 2)

\* three descriptors were out at once and two have come back: two regions,
\* four nodes
C27_Witness ==
    /\ ~leases.failed
    /\ leases.peak = 3 /\ Cardinality(leases.out) = 1
    /\ Cardinality(pool.locked) = 2
    /\ Len(PoolList(pool)) = 4
====
